---- MODULE Spec2Model ----
(***************************************************************************)
(* Model of scripts/01_gee_export_aod.py: a linear script that initializes *)
(* an Earth Engine session, defines a QA bit mask, and for each year of a  *)
(* fixed inclusive range builds an annual-mean AOD expression and submits  *)
(* it as a Drive export task.                                              *)
(*                                                                         *)
(* Text produced by f-strings is modelled as a sequence of one-character   *)
(* strings so that formatting and parsing are computed, not assumed.       *)
(***************************************************************************)
EXTENDS Integers, Sequences, FiniteSets, TLC

VARIABLES
  pc,               \* position of the script
  initCalls,        \* number of ee.Initialize() calls made
  authCalls,        \* number of ee.Authenticate() calls made
  initialized,      \* TRUE once an ee.Initialize() call has returned
  usa,              \* module global: boundary geometry
  collection_id,    \* module global
  aod_band,         \* module global
  scale_factor,     \* module global
  export_scale,     \* module global
  start_year,       \* module global
  end_year,         \* module global
  year,             \* loop variable
  start_date,       \* module global set in the loop body
  end_date,         \* module global set in the loop body
  annual_mean_aod,  \* module global set in the loop body: expression graph
  task,             \* module global set in the loop body: unstarted task
  constructed,      \* log of the tasks returned by Export.image.toDrive
  remote,           \* the platform's task queue: tasks started by task.start()
  raisedAt,         \* year whose loop body raised, 0 if none
  image,            \* a pixel handed to maskAOD (mask check only)
  maskedImage       \* the pixel returned by maskAOD (mask check only)

vars == <<pc, initCalls, authCalls, initialized, usa, collection_id, aod_band,
          scale_factor, export_scale, start_year, end_year, year, start_date,
          end_date, annual_mean_aod, task, constructed, remote, raisedAt,
          image, maskedImage>>

globals == <<usa, collection_id, aod_band, scale_factor, export_scale,
             start_year, end_year>>

loopVars == <<year, start_date, end_date, annual_mean_aod, task>>

authVars == <<initCalls, authCalls, initialized>>

maskVars == <<image, maskedImage>>

(***************************************************************************)
(* Bounds                                                                  *)
(***************************************************************************)
MaxYears == 3        \* number of distinct years a configuration may span
QABits == 13         \* width of the QA values enumerated for maskAOD

FirstYear == 2015    \* start_year of the script

Years == FirstYear .. (FirstYear + MaxYears - 1)

(***************************************************************************)
(* Text helpers                                                            *)
(***************************************************************************)
DigitChar == <<"0", "1", "2", "3", "4", "5", "6", "7", "8", "9">>

RECURSIVE FormatInt(_)
\* f'{year}': decimal digits of a non-negative integer
FormatInt(n) ==
  IF n < 10 THEN <<DigitChar[n + 1]>>
  ELSE FormatInt(n \div 10) \o <<DigitChar[(n % 10) + 1]>>

DigitVal(c) == CHOOSE d \in 0..9 : DigitChar[d + 1] = c

RECURSIVE ParseInt(_)
ParseInt(s) ==
  IF Len(s) = 0 THEN 0
  ELSE 10 * ParseInt(SubSeq(s, 1, Len(s) - 1)) + DigitVal(s[Len(s)])

\* s contains t as a contiguous substring
Contains(s, t) ==
  \E i \in 1..(Len(s) - Len(t) + 1) : SubSeq(s, i, i + Len(t) - 1) = t

(***************************************************************************)
(* Time: hours since 1970-01-01T00:00Z                                     *)
(***************************************************************************)
IsLeap(y) == (y % 4 = 0 /\ y % 100 # 0) \/ y % 400 = 0

DaysInMonth(y, m) ==
  IF m = 2 THEN (IF IsLeap(y) THEN 29 ELSE 28)
  ELSE IF m \in {4, 6, 9, 11} THEN 30 ELSE 31

LeapsThrough(y) == (y \div 4) - (y \div 100) + (y \div 400)

DaysBeforeYear(y) == 365 * (y - 1970) + LeapsThrough(y - 1) - LeapsThrough(1969)

RECURSIVE DaysBeforeMonth(_, _)
DaysBeforeMonth(y, m) ==
  IF m = 1 THEN 0 ELSE DaysBeforeMonth(y, m - 1) + DaysInMonth(y, m - 1)

Timestamp(y, m, d, h) ==
  (DaysBeforeYear(y) + DaysBeforeMonth(y, m) + (d - 1)) * 24 + h

\* ee.Date('YYYY-MM-DD'): midnight UTC of the named day
ParseDate(s) ==
  Timestamp(ParseInt(SubSeq(s, 1, 4)), ParseInt(SubSeq(s, 6, 7)),
            ParseInt(SubSeq(s, 9, 10)), 0)

(***************************************************************************)
(* Earth Engine image arithmetic on one pixel                              *)
(***************************************************************************)
RECURSIVE bitwiseAnd(_, _)
bitwiseAnd(a, b) ==
  IF a = 0 \/ b = 0 THEN 0
  ELSE (a % 2) * (b % 2) + 2 * bitwiseAnd(a \div 2, b \div 2)

rightShift(a, n) == a \div (2 ^ n)

eq(a, b) == IF a = b THEN 1 ELSE 0

And(a, b) == IF a # 0 /\ b # 0 THEN 1 ELSE 0

\* image.updateMask(m): the pixel stays valid only where m is non-zero
updateMask(img, m) == [img EXCEPT !.mask = IF m # 0 THEN img.mask ELSE 0]

cloudMask(qa) == eq(bitwiseAnd(qa, 7), 1)

\* variant: only bit 3 of the land/water field is tested
landMask_OneBit(qa) == eq(bitwiseAnd(rightShift(qa, 3), 1), 0)

landMask(qa) == eq(bitwiseAnd(rightShift(qa, 3), 3), 0)

qualityMask(qa) == eq(bitwiseAnd(rightShift(qa, 8), 15), 0)

finalMask(qa) == And(And(cloudMask(qa), landMask(qa)), qualityMask(qa))

maskAOD(img) == updateMask(img, finalMask(img.AOD_QA))

\* a granule seen at one pixel
Pixel(t, b, qa, aod) ==
  [time |-> t, inBounds |-> b, AOD_QA |-> qa, Optical_Depth_055 |-> aod, mask |-> 1]

(***************************************************************************)
(* Expression graphs: a chain of operations, evaluated by the platform     *)
(***************************************************************************)
Rational(n, d) == [num |-> n, den |-> d]

NoNum == Rational(0, 1)

EEOp(op, str, d1, d2, num) ==
  [op |-> op, str |-> str, d1 |-> d1, d2 |-> d2, num |-> num]

RECURSIVE SumBand(_, _)
SumBand(coll, band) ==
  IF coll = {} THEN 0
  ELSE LET i == CHOOSE j \in coll : TRUE
       IN  i[band] + SumBand(coll \ {i}, band)

Unmasked(coll) == {i \in coll : i.mask # 0}

\* one operation of the chain applied to the value computed so far
ApplyOp(o, v, catalogue) ==
  CASE o.op = "ImageCollection" -> [v EXCEPT !.coll = catalogue]
    [] o.op = "filterDate" ->
         LET lo == ParseDate(o.d1)
             hi == ParseDate(o.d2)
         IN  [v EXCEPT !.coll = {i \in v.coll : lo <= i.time /\ i.time < hi}]
    [] o.op = "filterBounds" -> [v EXCEPT !.coll = {i \in v.coll : i.inBounds}]
    [] o.op = "map" -> [v EXCEPT !.coll = {maskAOD(i) : i \in v.coll}]
    [] o.op = "select" -> [v EXCEPT !.band = o.str]
    [] o.op = "mean" ->
         [v EXCEPT !.isImage = TRUE,
                   !.valid = Unmasked(v.coll) # {},
                   !.num = SumBand(Unmasked(v.coll), v.band),
                   !.den = IF Unmasked(v.coll) = {} THEN 1
                           ELSE Cardinality(Unmasked(v.coll)),
                   !.used = {[i EXCEPT !.mask = 1] : i \in Unmasked(v.coll)}]
    [] o.op = "multiply" ->
         [v EXCEPT !.num = v.num * o.num.num, !.den = v.den * o.num.den]
    [] o.op = "clip" -> [v EXCEPT !.clip = o.str]
    [] OTHER -> v

EmptyValue ==
  [coll |-> {}, band |-> "", isImage |-> FALSE, valid |-> FALSE,
   num |-> 0, den |-> 1, used |-> {}, clip |-> ""]

RECURSIVE EvalFrom(_, _, _, _)
EvalFrom(chain, k, v, catalogue) ==
  IF k > Len(chain) THEN v
  ELSE EvalFrom(chain, k + 1, ApplyOp(chain[k], v, catalogue), catalogue)

Eval(chain, catalogue) == EvalFrom(chain, 1, EmptyValue, catalogue)

(***************************************************************************)
(* Literals of the script                                                  *)
(***************************************************************************)
JanFirst == <<"-", "0", "1", "-", "0", "1">>

DecLast == <<"-", "1", "2", "-", "3", "1">>

DescriptionHead == <<"A", "n", "n", "u", "a", "l", "_", "M", "e", "a", "n", "_", "A", "O", "D", "_">>

FileNameHead == <<"A", "O", "D", "_">>

RegionTail == <<"_", "U", "S", "A">>

UsaGeometry == "USDOS/LSIB_SIMPLE/2017[country_na=United States].geometry()"

MaxPixels == [mantissa |-> 1, exponent |-> 13]

NoTask ==
  [image |-> <<>>, description |-> <<>>, folder |-> "", fileNamePrefix |-> <<>>,
   scale |-> 0, crs |-> "", maxPixels |-> [mantissa |-> 0, exponent |-> 0]]

NotReturned == [Pixel(0, TRUE, 0, 0) EXCEPT !.mask = -1]

(***************************************************************************)
(* Initial state: nothing has run                                          *)
(***************************************************************************)
InitScript ==
  /\ pc = "Initialize"
  /\ initCalls = 0
  /\ authCalls = 0
  /\ initialized = FALSE
  /\ usa = ""
  /\ collection_id = ""
  /\ aod_band = ""
  /\ scale_factor = NoNum
  /\ export_scale = 0
  /\ start_year = 0
  /\ end_year = 0
  /\ year = 0
  /\ start_date = <<>>
  /\ end_date = <<>>
  /\ annual_mean_aod = <<>>
  /\ task = NoTask
  /\ constructed = <<>>
  /\ remote = <<>>
  /\ raisedAt = 0

Init ==
  /\ InitScript
  /\ image = Pixel(0, TRUE, 0, 0)
  /\ maskedImage = NotReturned

(***************************************************************************)
(* 1. Authenticate and initialize (lines 16-20)                            *)
(***************************************************************************)
\* line 17 returns
Initialize ==
  /\ pc = "Initialize"
  /\ initCalls' = initCalls + 1
  /\ initialized' = TRUE
  /\ pc' = "Config"
  /\ UNCHANGED <<authCalls, globals, loopVars, constructed, remote, raisedAt, maskVars>>

\* variant: the except block retries without authenticating
InitializeFails_SkipsAuth ==
  /\ pc = "Initialize"
  /\ initCalls' = initCalls + 1
  /\ pc' = "ReInitialize"
  /\ UNCHANGED <<authCalls, initialized, globals, loopVars, constructed, remote,
                 raisedAt, maskVars>>

\* line 17 raises an Exception, caught at line 18
InitializeFails ==
  /\ pc = "Initialize"
  /\ initCalls' = initCalls + 1
  /\ pc' = "Authenticate"
  /\ UNCHANGED <<authCalls, initialized, globals, loopVars, constructed, remote,
                 raisedAt, maskVars>>

\* line 19 returns
Authenticate ==
  /\ pc = "Authenticate"
  /\ authCalls' = authCalls + 1
  /\ pc' = "ReInitialize"
  /\ UNCHANGED <<initCalls, initialized, globals, loopVars, constructed, remote,
                 raisedAt, maskVars>>

\* line 19 raises inside the except block: nothing catches it
AuthenticateFails ==
  /\ pc = "Authenticate"
  /\ authCalls' = authCalls + 1
  /\ pc' = "crashed"
  /\ UNCHANGED <<initCalls, initialized, globals, loopVars, constructed, remote,
                 raisedAt, maskVars>>

\* line 20 returns
ReInitialize ==
  /\ pc = "ReInitialize"
  /\ initCalls' = initCalls + 1
  /\ initialized' = TRUE
  /\ pc' = "Config"
  /\ UNCHANGED <<authCalls, globals, loopVars, constructed, remote, raisedAt, maskVars>>

\* line 20 raises inside the except block: nothing catches it
ReInitializeFails ==
  /\ pc = "ReInitialize"
  /\ initCalls' = initCalls + 1
  /\ pc' = "crashed"
  /\ UNCHANGED <<authCalls, initialized, globals, loopVars, constructed, remote,
                 raisedAt, maskVars>>

(***************************************************************************)
(* 2.-4. Module constants (lines 23-27, 49-50)                             *)
(***************************************************************************)
Config ==
  /\ pc = "Config"
  /\ usa' = UsaGeometry
  /\ collection_id' = "MODIS/061/MCD19A2_GRANULES"
  /\ aod_band' = "Optical_Depth_055"
  /\ scale_factor' = Rational(1, 1000)
  /\ export_scale' = 1000
  /\ \E s \in Years, e \in Years :
       /\ s <= e
       /\ start_year' = s
       /\ end_year' = e
  /\ pc' = "for"
  /\ UNCHANGED <<authVars, loopVars, constructed, remote, raisedAt, maskVars>>

(***************************************************************************)
(* The year loop (lines 52-84)                                             *)
(***************************************************************************)
\* variant: range(start_year, end_year)
RangeStop_Exclusive == end_year

\* range(start_year, end_year + 1): the stop value is exclusive
RangeStop == end_year + 1

\* the next value the range yields; year = 0 until the first one
NextYear == IF year = 0 THEN start_year ELSE year + 1

FormatStartDate(y) == FormatInt(y) \o JanFirst

FormatEndDate(y) == FormatInt(y) \o DecLast

\* variant: the loop waits for every submitted task to complete
ForNext_AwaitsTasks ==
  /\ pc = "for"
  /\ \A i \in 1..Len(remote) : remote[i].state = "COMPLETED"
  /\ NextYear < RangeStop
  /\ year' = NextYear
  /\ start_date' = FormatStartDate(NextYear)
  /\ end_date' = FormatEndDate(NextYear)
  /\ pc' = "build"
  /\ UNCHANGED <<authVars, globals, annual_mean_aod, task, constructed, remote,
                 raisedAt, maskVars>>

\* lines 52-58: the range yields a year; the date strings are formatted
ForNext ==
  /\ pc = "for"
  /\ NextYear < RangeStop
  /\ year' = NextYear
  /\ start_date' = FormatStartDate(NextYear)
  /\ end_date' = FormatEndDate(NextYear)
  /\ pc' = "build"
  /\ UNCHANGED <<authVars, globals, annual_mean_aod, task, constructed, remote,
                 raisedAt, maskVars>>

\* lines 52, 86-88: the range is exhausted; the closing messages are printed
ForExit ==
  /\ pc = "for"
  /\ ~(NextYear < RangeStop)
  /\ pc' = "done"
  /\ UNCHANGED <<authVars, globals, loopVars, constructed, remote, raisedAt, maskVars>>

\* variant: the mask is mapped over the collection after the mean is requested
AnnualMeanChain_MaskAfterMean ==
  << EEOp("ImageCollection", collection_id, <<>>, <<>>, NoNum),
     EEOp("filterDate", "", start_date, end_date, NoNum),
     EEOp("filterBounds", usa, <<>>, <<>>, NoNum),
     EEOp("select", aod_band, <<>>, <<>>, NoNum),
     EEOp("mean", "", <<>>, <<>>, NoNum),
     EEOp("map", "maskAOD", <<>>, <<>>, NoNum),
     EEOp("multiply", "", <<>>, <<>>, scale_factor) >>

\* variant: the scale factor is applied both before and after the mean
AnnualMeanChain_ScaledTwice ==
  << EEOp("ImageCollection", collection_id, <<>>, <<>>, NoNum),
     EEOp("filterDate", "", start_date, end_date, NoNum),
     EEOp("filterBounds", usa, <<>>, <<>>, NoNum),
     EEOp("map", "maskAOD", <<>>, <<>>, NoNum),
     EEOp("select", aod_band, <<>>, <<>>, NoNum),
     EEOp("multiply", "", <<>>, <<>>, scale_factor),
     EEOp("mean", "", <<>>, <<>>, NoNum),
     EEOp("multiply", "", <<>>, <<>>, scale_factor) >>

\* lines 61-67
AnnualMeanChain ==
  << EEOp("ImageCollection", collection_id, <<>>, <<>>, NoNum),
     EEOp("filterDate", "", start_date, end_date, NoNum),
     EEOp("filterBounds", usa, <<>>, <<>>, NoNum),
     EEOp("map", "maskAOD", <<>>, <<>>, NoNum),
     EEOp("select", aod_band, <<>>, <<>>, NoNum),
     EEOp("mean", "", <<>>, <<>>, NoNum),
     EEOp("multiply", "", <<>>, <<>>, scale_factor) >>

BuildImage ==
  /\ pc = "build"
  /\ annual_mean_aod' = AnnualMeanChain
  /\ pc' = "toDrive"
  /\ UNCHANGED <<authVars, globals, year, start_date, end_date, task, constructed,
                 remote, raisedAt, maskVars>>

\* a call of lines 61-67 raises: the script ends with a traceback
BuildRaises ==
  /\ pc = "build"
  /\ raisedAt' = year
  /\ pc' = "crashed"
  /\ UNCHANGED <<authVars, globals, loopVars, constructed, remote, maskVars>>

\* variant: the image is exported without clip(usa)
ExportTask_Unclipped ==
  [image |-> annual_mean_aod,
   description |-> DescriptionHead \o FormatInt(year) \o RegionTail,
   folder |-> "GEE_Exports",
   fileNamePrefix |-> FileNameHead \o FormatInt(year) \o RegionTail,
   scale |-> export_scale,
   crs |-> "EPSG:4326",
   maxPixels |-> MaxPixels]

\* variant: the file name carries a running number instead of the year
ExportTask_Numbered ==
  [image |-> annual_mean_aod \o <<EEOp("clip", usa, <<>>, <<>>, NoNum)>>,
   description |-> DescriptionHead \o FormatInt(year) \o RegionTail,
   folder |-> "GEE_Exports",
   fileNamePrefix |-> FileNameHead \o FormatInt(Len(constructed) + 1) \o RegionTail,
   scale |-> export_scale,
   crs |-> "EPSG:4326",
   maxPixels |-> MaxPixels]

\* lines 70-78
ExportTask ==
  [image |-> annual_mean_aod \o <<EEOp("clip", usa, <<>>, <<>>, NoNum)>>,
   description |-> DescriptionHead \o FormatInt(year) \o RegionTail,
   folder |-> "GEE_Exports",
   fileNamePrefix |-> FileNameHead \o FormatInt(year) \o RegionTail,
   scale |-> export_scale,
   crs |-> "EPSG:4326",
   maxPixels |-> MaxPixels]

ToDrive ==
  /\ pc = "toDrive"
  /\ task' = ExportTask
  /\ constructed' = Append(constructed, [year |-> year, task |-> ExportTask])
  /\ pc' = "start"
  /\ UNCHANGED <<authVars, globals, year, start_date, end_date, annual_mean_aod,
                 remote, raisedAt, maskVars>>

\* the call of lines 70-78 raises
ToDriveRaises ==
  /\ pc = "toDrive"
  /\ raisedAt' = year
  /\ pc' = "crashed"
  /\ UNCHANGED <<authVars, globals, loopVars, constructed, remote, maskVars>>

\* lines 81-84: the platform acknowledges the task; the timing line is printed
StartTask ==
  /\ pc = "start"
  /\ remote' = Append(remote, [task |-> task, state |-> "READY"])
  /\ pc' = "for"
  /\ UNCHANGED <<authVars, globals, loopVars, constructed, raisedAt, maskVars>>

\* variant: the error of line 81 is swallowed and the loop goes on
StartRaises_Continues ==
  /\ pc = "start"
  /\ raisedAt' = year
  /\ pc' = "for"
  /\ UNCHANGED <<authVars, globals, loopVars, constructed, remote, maskVars>>

\* line 81 raises
StartRaises ==
  /\ pc = "start"
  /\ raisedAt' = year
  /\ pc' = "crashed"
  /\ UNCHANGED <<authVars, globals, loopVars, constructed, remote, maskVars>>

(***************************************************************************)
(* The platform runs submitted tasks on its own schedule                   *)
(***************************************************************************)
RemoteRuns ==
  \E i \in 1..Len(remote) :
    /\ remote[i].state = "READY"
    /\ remote' = [remote EXCEPT ![i].state = "RUNNING"]
    /\ UNCHANGED <<pc, authVars, globals, loopVars, constructed, raisedAt, maskVars>>

RemoteCompletes ==
  \E i \in 1..Len(remote) :
    /\ remote[i].state = "RUNNING"
    /\ remote' = [remote EXCEPT ![i].state = "COMPLETED"]
    /\ UNCHANGED <<pc, authVars, globals, loopVars, constructed, raisedAt, maskVars>>

RemoteFails ==
  \E i \in 1..Len(remote) :
    /\ remote[i].state = "RUNNING"
    /\ remote' = [remote EXCEPT ![i].state = "FAILED"]
    /\ UNCHANGED <<pc, authVars, globals, loopVars, constructed, raisedAt, maskVars>>

ScriptStep ==
  \/ Initialize
  \/ InitializeFails
  \/ Authenticate
  \/ AuthenticateFails
  \/ ReInitialize
  \/ ReInitializeFails
  \/ Config
  \/ ForNext
  \/ ForExit
  \/ BuildImage
  \/ BuildRaises
  \/ ToDrive
  \/ ToDriveRaises
  \/ StartTask
  \/ StartRaises

RemoteStep == RemoteRuns \/ RemoteCompletes \/ RemoteFails

Next == ScriptStep \/ RemoteStep

Spec == Init /\ [][Next]_vars

\* Runs in which every call returns normally.  The interpreter keeps
\* executing the script; the platform is not obliged to run anything.
AckStep ==
  \/ Initialize
  \/ Config
  \/ ForNext
  \/ ForExit
  \/ BuildImage
  \/ ToDrive
  \/ StartTask

NextAck == AckStep \/ RemoteStep

AckSpec == Init /\ [][NextAck]_vars /\ WF_vars(AckStep)

(***************************************************************************)
(* maskAOD on its own: every QA value of QABits bits                       *)
(***************************************************************************)
QAValues == 0 .. (2 ^ QABits - 1)

InitMask ==
  /\ InitScript
  /\ \E q \in QAValues : image = Pixel(0, TRUE, q, 100)
  /\ maskedImage = NotReturned

\* lines 30-46 applied to the pixel
ApplyMask ==
  /\ maskedImage.mask = -1
  /\ maskedImage' = maskAOD(image)
  /\ UNCHANGED <<pc, authVars, globals, loopVars, constructed, remote, raisedAt, image>>

NextMask == ApplyMask

SpecMask == InitMask /\ [][NextMask]_vars

(***************************************************************************)
(* Properties                                                              *)
(***************************************************************************)
TaskCount == end_year - start_year + 1

\* the fields of the QA value, by arithmetic on the integer
CloudField(q) == q % 8

LandWaterField(q) == (q \div 8) % 4

RetrievalField(q) == (q \div 256) % 16

KeepsPixel(q) == CloudField(q) = 1 /\ LandWaterField(q) = 0 /\ RetrievalField(q) = 0

\* the QA value with bits 5-7 cleared
ClearBits5To7(q) == q - ((q \div 32) % 8) * 32

\* C1: maskAOD keeps a pixel iff its cloud field is 1, its land/water field
\* is 0 and its retrieval field is 0; q = 1 is kept, q = 0 and every q with
\* bit 3 set are masked out, and bits 5-7 have no influence.
C1_MaskIffFields ==
  maskedImage.mask # -1 =>
    LET q == image.AOD_QA
    IN  /\ maskedImage.mask \in {0, 1}
        /\ (maskedImage.mask = 1) <=> KeepsPixel(q)
        /\ q = 1 => maskedImage.mask = 1
        /\ q = 0 => maskedImage.mask = 0
        /\ (q \div 8) % 2 = 1 => maskedImage.mask = 0
        /\ KeepsPixel(q) <=> KeepsPixel(ClearBits5To7(q))
        /\ maskedImage = [image EXCEPT !.mask = maskedImage.mask]

\* a pixel with bits 5-7 set that maskAOD returned valid
C1_Witness ==
  /\ maskedImage.mask = 1
  /\ (image.AOD_QA \div 32) % 8 = 7

Description(t) == t.description

AllDistinct(names) ==
  \A i, j \in 1..Len(names) : i # j => names[i] # names[j]

\* C2: a run that reaches the end of the script has constructed and started
\* exactly end_year - start_year + 1 tasks, the i-th for year
\* start_year + i - 1, with description and file-name prefix containing the
\* year and pairwise different.
C2_OneTaskPerYear ==
  pc = "done" =>
    /\ Len(constructed) = TaskCount
    /\ Len(remote) = TaskCount
    /\ start_year = end_year => Len(remote) = 1
    /\ \A i \in 1..Len(constructed) :
         /\ constructed[i].year = start_year + i - 1
         /\ remote[i].task = constructed[i].task
         /\ Contains(constructed[i].task.description, FormatInt(constructed[i].year))
         /\ Contains(constructed[i].task.fileNamePrefix, FormatInt(constructed[i].year))
    /\ AllDistinct([i \in 1..Len(remote) |-> remote[i].task.description])
    /\ AllDistinct([i \in 1..Len(remote) |-> remote[i].task.fileNamePrefix])

\* the script ended after submitting two or more years
C2_Witness == pc = "done" /\ Len(remote) >= 2 /\ Len(remote) = TaskCount

\* hours at which a granule may be stamped around the edges of year y
EdgeTimes(y) ==
  { Timestamp(y - 1, 12, 31, 23), Timestamp(y, 1, 1, 0), Timestamp(y, 7, 1, 12),
    Timestamp(y, 12, 30, 23), Timestamp(y, 12, 31, 0), Timestamp(y, 12, 31, 12),
    Timestamp(y, 12, 31, 23), Timestamp(y + 1, 1, 1, 0) }

InYear(t, y) == Timestamp(y, 1, 1, 0) <= t /\ t < Timestamp(y + 1, 1, 1, 0)

\* the granules of the catalogue that the chain's date filter lets through
DateFiltered(chain, catalogue) == Eval(SubSeq(chain, 1, 2), catalogue).coll

\* C3: the date filter of the expression for year Y passes exactly the
\* granules stamped within Y, December 31 included.
C3_WindowIsWholeYear ==
  \A i \in 1..Len(constructed) :
    \A t \in EdgeTimes(constructed[i].year) :
      LET g == Pixel(t, TRUE, 1, 100)
      IN  (g \in DateFiltered(constructed[i].task.image, {g}))
            <=> InYear(t, constructed[i].year)

\* positions of an operation in a chain
Positions(chain, op) == {k \in 1..Len(chain) : chain[k].op = op}

\* sample granules of year y at one pixel
SampleGranules(y) ==
  LET t == Timestamp(y, 7, 1, 12)
  IN  { Pixel(t, TRUE, 1, 100),      \* clear, land, best quality
        Pixel(t, TRUE, 1, 300),
        Pixel(t, TRUE, 225, 300),    \* the same with bits 5-7 set
        Pixel(t, TRUE, 0, 100),      \* cloud field 0
        Pixel(t, TRUE, 9, 100),      \* land/water field 1
        Pixel(t, TRUE, 257, 100),    \* retrieval field 1
        Pixel(t, FALSE, 1, 100),     \* footprint outside the boundary
        Pixel(Timestamp(y + 1, 1, 1, 0), TRUE, 1, 500) }

\* catalogues of at most two sample granules
SampleCatalogues(y) ==
  {{}} \cup { {g, h} : g \in SampleGranules(y), h \in SampleGranules(y) }

\* the collection as it stands before the first map of the chain
FilteredCollection(chain, catalogue) ==
  LET m == CHOOSE k \in Positions(chain, "map") :
             \A j \in Positions(chain, "map") : k <= j
  IN  Eval(SubSeq(chain, 1, m - 1), catalogue).coll

\* C4: in every task's expression maskAOD is mapped over the filtered
\* collection before the mean and nowhere after it, and the mean is taken
\* over exactly those filtered granules whose pixel passes the mask.
C4_MaskBeforeMean ==
  \A i \in 1..Len(constructed) :
    LET chain == constructed[i].task.image
    IN  /\ Cardinality(Positions(chain, "map")) = 1
        /\ Cardinality(Positions(chain, "mean")) = 1
        /\ \A m \in Positions(chain, "map"), n \in Positions(chain, "mean") :
             /\ m < n
             /\ chain[m].str = "maskAOD"
             /\ Positions(chain, "filterDate") \cup Positions(chain, "filterBounds")
                  \subseteq 1..(m - 1)
        /\ \A cat \in SampleCatalogues(constructed[i].year) :
             LET v == Eval(chain, cat)
             IN  /\ v.used = {g \in FilteredCollection(chain, cat) : KeepsPixel(g.AOD_QA)}
                 /\ v.valid <=> v.used # {}

\* a task whose filtered sample holds both a passing and a failing granule
C4_Witness ==
  /\ Len(constructed) >= 1
  /\ \E cat \in SampleCatalogues(constructed[1].year) :
       LET v == Eval(constructed[1].task.image, cat)
       IN  /\ Cardinality(v.used) = 1
           /\ Cardinality(FilteredCollection(constructed[1].task.image, cat)) = 2

\* C5: in every task's expression the only multiplication comes after the
\* mean and before the clip, its factor is scale_factor, and the exported
\* value is the mean of the raw stored values times that factor.
C5_ScaleOnceAfterMean ==
  \A i \in 1..Len(constructed) :
    LET chain == constructed[i].task.image
    IN  /\ Cardinality(Positions(chain, "multiply")) = 1
        /\ \A n \in Positions(chain, "mean"), x \in Positions(chain, "multiply"),
              c \in Positions(chain, "clip") :
             /\ n < x
             /\ x < c
             /\ chain[x].num = Rational(1, 1000)
        /\ Positions(chain, "mean") # {}
        /\ Positions(chain, "clip") # {}
        /\ \A cat \in SampleCatalogues(constructed[i].year) :
             LET v == Eval(chain, cat)
             IN  v.valid =>
                   /\ v.num = SumBand(v.used, "Optical_Depth_055")
                   /\ v.den = Cardinality(v.used) * 1000

\* a task whose sample mean is taken over two granules
C5_Witness ==
  /\ Len(constructed) >= 1
  /\ \E cat \in SampleCatalogues(constructed[1].year) :
       LET v == Eval(constructed[1].task.image, cat)
       IN  v.valid /\ v.num = 400 /\ v.den = 2000

StartUp == {"Initialize", "Authenticate", "ReInitialize"}

\* C6: Authenticate is called only after a failed first Initialize and at
\* most once, Initialize at most twice; a failure of Authenticate or of the
\* second Initialize ends the script with no task constructed or started;
\* tasks exist only once Initialize has returned.
C6_OneFallback ==
  /\ authCalls <= 1
  /\ initCalls <= 2
  /\ initCalls = 2 => authCalls = 1
  /\ authCalls = 1 => initCalls >= 1
  /\ pc = "Authenticate" => initCalls = 1 /\ authCalls = 0 /\ ~initialized
  /\ pc = "ReInitialize" => initCalls = 1 /\ authCalls = 1 /\ ~initialized
  /\ pc \notin StartUp \cup {"crashed"} =>
       /\ initialized
       /\ \/ initCalls = 1 /\ authCalls = 0
          \/ initCalls = 2 /\ authCalls = 1
  /\ pc = "crashed" /\ raisedAt = 0 =>
       /\ ~initialized
       /\ authCalls = 1
       /\ constructed = <<>>
       /\ remote = <<>>
       /\ task = NoTask
  /\ constructed # <<>> \/ remote # <<>> => initialized

\* the second Initialize failed and the script is over
C6_Witness == pc = "crashed" /\ initCalls = 2 /\ authCalls = 1 /\ raisedAt = 0

\* C7: when the body of year Y raises, the script is over: the started tasks
\* are those of start_year..Y-1 in order, nothing is constructed or started
\* afterwards and the loop variable stays at Y.
C7_RaiseEndsScript ==
  /\ [](pc = "crashed" /\ raisedAt # 0 =>
          /\ year = raisedAt
          /\ Len(remote) = raisedAt - start_year
          /\ Len(constructed) \in {Len(remote), Len(remote) + 1}
          /\ \A i \in 1..Len(constructed) : constructed[i].year = start_year + i - 1
          /\ \A i \in 1..Len(remote) : remote[i].task = constructed[i].task)
  /\ [][pc = "crashed" =>
          /\ pc' = "crashed"
          /\ year' = year
          /\ constructed' = constructed
          /\ Len(remote') = Len(remote)
          /\ \A i \in 1..Len(remote) : remote'[i].task = remote[i].task]_vars

\* the second year's task.start() raised after the first year was submitted
C7_Witness ==
  /\ pc = "crashed"
  /\ raisedAt = start_year + 1
  /\ Len(remote) = 1
  /\ Len(constructed) = 2

FixedPart(t) == [t EXCEPT !.image = <<>>, !.description = <<>>, !.fileNamePrefix = <<>>]

\* C8: every constructed and every submitted task exports an image whose last
\* operation is a clip to the boundary used by filterBounds, at scale
\* export_scale, in EPSG:4326, to the fixed folder, with the pixel ceiling
\* set; tasks differ in image, description and file-name prefix only.
C8_FixedParameters ==
  /\ \A i \in 1..Len(constructed) :
       LET t == constructed[i].task
       IN  /\ Len(t.image) >= 1
           /\ t.image[Len(t.image)].op = "clip"
           /\ t.image[Len(t.image)].str = UsaGeometry
           /\ usa = UsaGeometry
           /\ \A k \in Positions(t.image, "filterBounds") : t.image[k].str = UsaGeometry
           /\ Positions(t.image, "filterBounds") # {}
           /\ t.scale = 1000
           /\ t.scale = export_scale
           /\ t.crs = "EPSG:4326"
           /\ t.folder = "GEE_Exports"
           /\ t.maxPixels = [mantissa |-> 1, exponent |-> 13]
           /\ FixedPart(t) = FixedPart(constructed[1].task)
  /\ \A i \in 1..Len(remote) : remote[i].task = constructed[i].task

\* two years have been submitted
C8_Witness == Len(remote) >= 2 /\ remote[1].task.image # remote[2].task.image

\* C9: when every call returns normally the script reaches its end with all
\* years submitted, and until then a step of the script is always possible,
\* whatever the platform does or does not do with the submitted tasks.
C9_ScriptEnds ==
  /\ [](pc # "done" => ENABLED AckStep)
  /\ <>(pc = "done" /\ Len(remote) = TaskCount)

\* the script has ended and no submitted task has begun to run
C9_Witness ==
  /\ pc = "done"
  /\ Len(remote) >= 2
  /\ \A i \in 1..Len(remote) : remote[i].state = "READY"

\* the task of year y written out from y and the literals of the script
ExpectedTask(y) ==
  [image |->
     << EEOp("ImageCollection", "MODIS/061/MCD19A2_GRANULES", <<>>, <<>>, NoNum),
        EEOp("filterDate", "", FormatInt(y) \o JanFirst, FormatInt(y) \o DecLast, NoNum),
        EEOp("filterBounds", UsaGeometry, <<>>, <<>>, NoNum),
        EEOp("map", "maskAOD", <<>>, <<>>, NoNum),
        EEOp("select", "Optical_Depth_055", <<>>, <<>>, NoNum),
        EEOp("mean", "", <<>>, <<>>, NoNum),
        EEOp("multiply", "", <<>>, <<>>, Rational(1, 1000)),
        EEOp("clip", UsaGeometry, <<>>, <<>>, NoNum) >>,
   description |-> DescriptionHead \o FormatInt(y) \o RegionTail,
   folder |-> "GEE_Exports",
   fileNamePrefix |-> FileNameHead \o FormatInt(y) \o RegionTail,
   scale |-> 1000,
   crs |-> "EPSG:4326",
   maxPixels |-> [mantissa |-> 1, exponent |-> 13]]

\* C10: the task of year Y is determined by Y and the module constants alone,
\* whatever was processed before it, and no iteration of the loop changes a
\* module constant.
C10_TaskDependsOnYearOnly ==
  /\ [](\A i \in 1..Len(constructed) :
          constructed[i].task = ExpectedTask(constructed[i].year))
  /\ [][pc \notin StartUp \cup {"Config"} => globals' = globals]_vars

\* the last year's task was built after two others and a start-up retry
C10_Witness ==
  /\ Len(constructed) >= 2
  /\ constructed[Len(constructed)].year > start_year
  /\ initCalls = 2

====
